---- MODULE Spec2Model ----
(***************************************************************************)
(* Model of libdialog/dialog/task_pool.h: task_queue (a mutex + condition  *)
(* variable protected std::queue of type-erased packaged tasks),           *)
(* task_worker (one thread looping on dequeue) and task_pool (owner of the *)
(* queue and of a fixed vector of workers).                                *)
(*                                                                         *)
(* Every section of code that runs under mutex_ is one atomic action.      *)
(* condition_.wait(lock, pred) is split at the point where the thread      *)
(* releases the mutex and sleeps: a sleeping thread is "waiting", a thread *)
(* that was notified (or woke spuriously) and has to re-acquire the mutex  *)
(* and re-evaluate the predicate is "woken".                               *)
(*                                                                         *)
(* Submissions are numbered 1, 2, ... in the order in which their enqueue  *)
(* appended them.  Submission t is a callable that either returns Value(t) *)
(* or throws.                                                              *)
(***************************************************************************)
EXTENDS Naturals, Sequences, FiniteSets

\* Bounds of the model.
MaxWorkers == 2
MaxTasks == 2

VARIABLES
  num_workers,  \* task_pool::workers_.size()
  queue_,       \* task_queue::queue_ : sequence of submission numbers
  valid_,       \* task_queue::valid_
  pc,           \* position of each worker thread
  task,         \* the worker lambda's local `task`: the submission it is
                \* calling (0: none; a function object whose call has
                \* returned is spent and is written 0 as well)
  stop_,        \* task_worker::stop_
  joined,       \* workers whose std::thread is no longer joinable
  callable,     \* per submission: "returns" or "throws"
  future,       \* per submission: shared state of the std::future
  owner,        \* position of the thread that owns the pool
  idx,          \* worker the owner is stopping / joining
  closed,       \* history: workers to which a dequeue call has returned false
  dequeued,     \* history: submissions in the order dequeue returned them
  logged,       \* submissions for which the worker's catch block logged
  cleared,      \* history: submissions that were pending at a clear() call
  pendingAtInvalidate,  \* history: submissions pending at an invalidate()
  blockedAtInvalidate,  \* history: workers asleep in dequeue at an invalidate()
  afterStop     \* history: per worker, the number of tasks dequeue returned
                \* to it while its stop_ was already set

vars == <<num_workers, queue_, valid_, pc, task, stop_, joined, callable,
          future, owner, idx, closed, dequeued, logged, cleared,
          pendingAtInvalidate, blockedAtInvalidate, afterStop>>

Workers == 1..num_workers
Submitted == 1..Len(future)
Range(s) == {s[i] : i \in 1..Len(s)}

\* States of a future's shared state.
Pending == <<"pending", 0>>
Broken == <<"broken_promise", 0>>

\* The value submission t computes when it does not throw.
Value(t) == t * t

-----------------------------------------------------------------------------
(* Condition variable *)

Waiters(p) == {w \in DOMAIN p : p[w] = "waiting"}

\* Faulty variant: the notification is forgotten.
notify_lost(p) == {p}

\* condition_.notify_one(): wakes one sleeping thread, if there is one.
notify_one(p) ==
  IF Waiters(p) = {} THEN {p}
  ELSE {[p EXCEPT ![w] = "woken"] : w \in Waiters(p)}

\* condition_.notify_all(): wakes every sleeping thread.
notify_all(p) ==
  [w \in DOMAIN p |-> IF p[w] = "waiting" THEN "woken" ELSE p[w]]

-----------------------------------------------------------------------------
(* task_queue *)

\* The predicate of condition_.wait in dequeue.
wait_pred(q, v) == q # <<>> \/ ~v

\* Faulty variant: an invalidated queue is drained before it reports closed.
returns_closed_if_empty(q, v) == ~v /\ q = <<>>

\* dequeue's test `if (!valid_) return false`.
returns_closed(q, v) == ~v

\* Faulty variant: the newest element is taken.
front_back(q) == q[Len(q)]

\* queue_.front()
front(q) == Head(q)

\* Faulty variant: the head is copied out but not removed.
pop_nothing(q) == q

\* queue_.pop()
pop(q) == Tail(q)

\* Faulty variant: the new element is put at the head.
emplace_front(q, t) == <<t>> \o q

\* queue_.emplace(...)
emplace(q, t) == Append(q, t)

\* Faulty variant: `if` in place of `while`.
clear_once(q) == IF q = <<>> THEN q ELSE Tail(q)

\* clear()'s loop `while (!queue_.empty()) queue_.pop()`.
clear_loop(q) == <<>>

\* The shared_ptr<packaged_task> captured by a queued lambda is the task's
\* last owner once enqueue has returned: destroying the std::function without
\* having invoked it destroys the packaged_task, which abandons its shared
\* state (the future becomes ready with future_errc::broken_promise).
abandon(f, S) ==
  [t \in DOMAIN f |-> IF t \in S /\ f[t] = Pending THEN Broken ELSE f[t]]

\* Faulty variant: the flag is flipped instead of cleared.
invalidate_toggle(v) == ~v

\* invalidate()'s assignment to valid_.
invalidate_valid(v) == FALSE

\* Faulty variant: notify_one in place of notify_all.
invalidate_notify_one(p) ==
  IF Waiters(p) = {} THEN p
  ELSE [p EXCEPT ![CHOOSE w \in Waiters(p) : TRUE] = "woken"]

\* invalidate()'s notification.
invalidate_notify(p) == notify_all(p)

\* task_queue::invalidate(), lines 36-40: the effect on the queue's state.
invalidate ==
  /\ valid_' = invalidate_valid(valid_)
  /\ pc' = invalidate_notify(pc)
  /\ pendingAtInvalidate' = pendingAtInvalidate \cup Range(queue_)
  /\ blockedAtInvalidate' = blockedAtInvalidate \cup Waiters(pc)

\* A client thread calls queue.invalidate().
call_invalidate ==
  /\ owner # "destroyed"
  /\ invalidate
  /\ UNCHANGED <<num_workers, queue_, task, stop_, joined, callable, future,
                 owner, idx, closed, dequeued, logged, cleared, afterStop>>

\* A client thread calls pool.submit(f) / queue.enqueue(f).
enqueue(c) ==
  /\ owner # "destroyed"
  /\ Len(future) < MaxTasks
  /\ callable' = Append(callable, c)
  /\ future' = Append(future, Pending)
  /\ queue_' = emplace(queue_, Len(future) + 1)
  /\ pc' \in notify_one(pc)
  /\ UNCHANGED <<num_workers, valid_, task, stop_, joined, owner, idx, closed,
                 dequeued, logged, cleared, pendingAtInvalidate,
                 blockedAtInvalidate, afterStop>>

\* A client thread calls queue.clear().
clear ==
  /\ owner # "destroyed"
  /\ queue_' = clear_loop(queue_)
  /\ future' = abandon(future, Range(queue_) \ Range(queue_'))
  /\ pc' = notify_all(pc)
  /\ cleared' = cleared \cup Range(queue_)
  /\ UNCHANGED <<num_workers, valid_, task, stop_, joined, callable, owner,
                 idx, closed, dequeued, logged, pendingAtInvalidate,
                 blockedAtInvalidate, afterStop>>

\* dequeue from the point where the caller holds the mutex and evaluates the
\* wait predicate, to the point where it sleeps or returns.  The worker's
\* `if (queue_.dequeue(task))` is folded in: on true the worker calls task()
\* at once (nothing shared is touched in between), on false it goes back to
\* the loop test.
dequeue_locked(w) ==
  IF ~wait_pred(queue_, valid_)
  THEN /\ pc' = [pc EXCEPT ![w] = "waiting"]
       /\ UNCHANGED <<queue_, task, closed, dequeued, afterStop>>
  ELSE IF returns_closed(queue_, valid_)
  THEN /\ pc' = [pc EXCEPT ![w] = "loop"]
       /\ closed' = closed \cup {w}
       /\ UNCHANGED <<queue_, task, dequeued, afterStop>>
  ELSE /\ queue_ # <<>>
       /\ task' = [task EXCEPT ![w] = front(queue_)]
       /\ queue_' = pop(queue_)
       /\ dequeued' = Append(dequeued, front(queue_))
       /\ closed' = closed
       /\ afterStop' = IF stop_[w] THEN [afterStop EXCEPT ![w] = @ + 1]
                       ELSE afterStop
       /\ pc' = [pc EXCEPT ![w] = "running"]

\* Worker w enters dequeue.
dequeue_call(w) ==
  /\ w \in Workers
  /\ pc[w] = "deq"
  /\ dequeue_locked(w)
  /\ UNCHANGED <<num_workers, valid_, stop_, joined, callable, future, owner,
                 idx, logged, cleared, pendingAtInvalidate,
                 blockedAtInvalidate>>

\* Faulty variant: wait(lock) without a predicate; a woken thread that finds
\* the queue empty takes the wake-up for the closed signal.
dequeue_wake_trusting(w) ==
  /\ w \in Workers
  /\ pc[w] = "woken"
  /\ IF queue_ = <<>>
     THEN /\ pc' = [pc EXCEPT ![w] = "loop"]
          /\ closed' = closed \cup {w}
          /\ UNCHANGED <<queue_, task, dequeued, afterStop>>
     ELSE dequeue_locked(w)
  /\ UNCHANGED <<num_workers, valid_, stop_, joined, callable, future, owner,
                 idx, logged, cleared, pendingAtInvalidate,
                 blockedAtInvalidate>>

\* Worker w, woken inside condition_.wait, re-acquires the mutex.
dequeue_wake(w) ==
  /\ w \in Workers
  /\ pc[w] = "woken"
  /\ dequeue_locked(w)
  /\ UNCHANGED <<num_workers, valid_, stop_, joined, callable, future, owner,
                 idx, logged, cleared, pendingAtInvalidate,
                 blockedAtInvalidate>>

\* A thread asleep in condition_.wait may wake without a notification.
spurious_wakeup(w) ==
  /\ w \in Workers
  /\ pc[w] = "waiting"
  /\ pc' = [pc EXCEPT ![w] = "woken"]
  /\ UNCHANGED <<num_workers, queue_, valid_, task, stop_, joined, callable,
                 future, owner, idx, closed, dequeued, logged, cleared,
                 pendingAtInvalidate, blockedAtInvalidate, afterStop>>

-----------------------------------------------------------------------------
(* task_worker *)

\* Faulty variant: the worker drains the queue before it honours stop_.
loop_test_drain(w) ==
  /\ w \in Workers
  /\ pc[w] = "loop"
  /\ pc' = [pc EXCEPT ![w] = IF stop_[w] /\ queue_ = <<>>
                               THEN "exited" ELSE "deq"]
  /\ UNCHANGED <<num_workers, queue_, valid_, task, stop_, joined, callable,
                 future, owner, idx, closed, dequeued, logged, cleared,
                 pendingAtInvalidate, blockedAtInvalidate, afterStop>>

\* `while (!atomic::load(&stop_))`
loop_test(w) ==
  /\ w \in Workers
  /\ pc[w] = "loop"
  /\ pc' = [pc EXCEPT ![w] = IF stop_[w] THEN "exited" ELSE "deq"]
  /\ UNCHANGED <<num_workers, queue_, valid_, task, stop_, joined, callable,
                 future, owner, idx, closed, dequeued, logged, cleared,
                 pendingAtInvalidate, blockedAtInvalidate, afterStop>>

\* Faulty variant: every lambda computes with the first submission's argument
\* (a capture by reference of a variable the submitter reuses).
packaged_task_call_shared(t) ==
  [state |-> IF callable[t] = "throws" THEN <<"exception", t>>
             ELSE <<"value", Value(1)>>,
   escapes |-> FALSE]

\* (*task)() on the std::packaged_task of submission t: the callable's return
\* value or its exception is stored in the shared state; the exception is not
\* rethrown to the caller of operator().
packaged_task_call(t) ==
  [state |-> IF callable[t] = "throws" THEN <<"exception", t>>
             ELSE <<"value", Value(t)>>,
   escapes |-> FALSE]

\* Where the worker continues after the try/catch around task().
after_task(escaped) == "loop"

\* Faulty variant: a callable that throws takes the worker thread down.
task_end_crash(w) ==
  /\ w \in Workers
  /\ pc[w] = "running"
  /\ future' = [future EXCEPT ![task[w]] = packaged_task_call(task[w]).state]
  /\ pc' = [pc EXCEPT ![w] = IF callable[task[w]] = "throws"
                               THEN "exited" ELSE "loop"]
  /\ task' = [task EXCEPT ![w] = 0]
  /\ UNCHANGED <<num_workers, queue_, valid_, stop_, joined, callable,
                 owner, idx, closed, dequeued, logged, cleared,
                 pendingAtInvalidate, blockedAtInvalidate, afterStop>>

\* `task()` returns or throws; the catch block runs if an exception escaped.
task_end(w) ==
  /\ w \in Workers
  /\ pc[w] = "running"
  /\ LET r == packaged_task_call(task[w]) IN
       /\ future' = [future EXCEPT ![task[w]] = r.state]
       /\ logged' = IF r.escapes THEN logged \cup {task[w]} ELSE logged
       /\ pc' = [pc EXCEPT ![w] = after_task(r.escapes)]
       /\ task' = [task EXCEPT ![w] = 0]
  /\ UNCHANGED <<num_workers, queue_, valid_, stop_, joined, callable,
                 owner, idx, closed, dequeued, cleared,
                 pendingAtInvalidate, blockedAtInvalidate, afterStop>>

\* The steps of worker w's thread.
start(w) ==
  \/ loop_test(w)
  \/ dequeue_call(w)
  \/ dequeue_wake(w)
  \/ task_end(w)

\* The owner calls worker->stop() outside of the destructor: the flag is
\* stored, then the owner blocks in join() if the thread is joinable.
stop(w) ==
  /\ w \in Workers
  /\ owner = "live"
  /\ stop_' = [stop_ EXCEPT ![w] = TRUE]
  /\ IF w \in joined
     THEN UNCHANGED <<owner, idx>>
     ELSE owner' = "join" /\ idx' = w
  /\ UNCHANGED <<num_workers, queue_, valid_, pc, task, joined, callable,
                 future, closed, dequeued, logged, cleared,
                 pendingAtInvalidate, blockedAtInvalidate, afterStop>>

\* Faulty variant: the thread is detached instead of joined.
stop_join_detach ==
  /\ owner = "join"
  /\ joined' = joined \cup {idx}
  /\ owner' = "live"
  /\ idx' = 0
  /\ UNCHANGED <<num_workers, queue_, valid_, pc, task, stop_, callable,
                 future, closed, dequeued, logged, cleared,
                 pendingAtInvalidate, blockedAtInvalidate, afterStop>>

\* worker_.join() of stop() returns once the worker thread has exited.
stop_join ==
  /\ owner = "join"
  /\ pc[idx] = "exited"
  /\ joined' = joined \cup {idx}
  /\ owner' = "live"
  /\ idx' = 0
  /\ UNCHANGED <<num_workers, queue_, valid_, pc, task, stop_, callable,
                 future, closed, dequeued, logged, cleared,
                 pendingAtInvalidate, blockedAtInvalidate, afterStop>>

-----------------------------------------------------------------------------
(* task_pool *)

\* Faulty variant: the destructor stops the workers without invalidating.
dtor_skip_invalidate ==
  UNCHANGED <<valid_, pc, pendingAtInvalidate, blockedAtInvalidate>>

\* What ~task_pool does to the queue before it touches any worker.
dtor_first == invalidate

\* ~task_pool begins: queue_.invalidate().
dtor_begin ==
  /\ owner = "live"
  /\ dtor_first
  /\ owner' = "dtor_loop"
  /\ idx' = 1
  /\ UNCHANGED <<num_workers, queue_, task, stop_, joined, callable, future,
                 closed, dequeued, logged, cleared, afterStop>>

\* Faulty variant: the flag is stored but the thread is not joined.
dtor_delete_nojoin ==
  /\ owner = "dtor_loop"
  /\ idx <= num_workers
  /\ stop_' = [stop_ EXCEPT ![idx] = TRUE]
  /\ idx' = idx + 1
  /\ owner' = owner
  /\ UNCHANGED <<num_workers, queue_, valid_, pc, task, joined, callable,
                 future, closed, dequeued, logged, cleared,
                 pendingAtInvalidate, blockedAtInvalidate, afterStop>>

\* `delete worker` -> ~task_worker -> stop(): store the flag, then join.
dtor_delete ==
  /\ owner = "dtor_loop"
  /\ idx <= num_workers
  /\ stop_' = [stop_ EXCEPT ![idx] = TRUE]
  /\ IF idx \in joined
     THEN idx' = idx + 1 /\ owner' = owner
     ELSE idx' = idx /\ owner' = "dtor_join"
  /\ UNCHANGED <<num_workers, queue_, valid_, pc, task, joined, callable,
                 future, closed, dequeued, logged, cleared,
                 pendingAtInvalidate, blockedAtInvalidate, afterStop>>

\* worker_.join() inside the destructor returns.
dtor_join ==
  /\ owner = "dtor_join"
  /\ pc[idx] = "exited"
  /\ joined' = joined \cup {idx}
  /\ owner' = "dtor_loop"
  /\ idx' = idx + 1
  /\ UNCHANGED <<num_workers, queue_, valid_, pc, task, stop_, callable,
                 future, closed, dequeued, logged, cleared,
                 pendingAtInvalidate, blockedAtInvalidate, afterStop>>

\* After the destructor's body the member queue_ is destroyed: ~task_queue
\* calls invalidate() and the std::queue destroys the lambdas it still holds.
dtor_queue ==
  /\ owner = "dtor_loop"
  /\ idx > num_workers
  /\ invalidate
  /\ queue_' = <<>>
  /\ future' = abandon(future, Range(queue_))
  /\ owner' = "destroyed"
  /\ UNCHANGED <<num_workers, task, stop_, joined, callable, closed, dequeued,
                 logged, cleared, idx,
                 afterStop>>

\* The steps of the destructor once it has begun.
dtor_step == dtor_delete \/ dtor_join \/ dtor_queue

-----------------------------------------------------------------------------
(* Specifications *)

\* task_pool(num_workers): every worker constructed and started.
Init ==
  /\ num_workers \in 0..MaxWorkers
  /\ queue_ = <<>>
  /\ valid_ = TRUE
  /\ pc = [w \in 1..num_workers |-> "loop"]
  /\ task = [w \in 1..num_workers |-> 0]
  /\ stop_ = [w \in 1..num_workers |-> FALSE]
  /\ joined = {}
  /\ callable = <<>>
  /\ future = <<>>
  /\ owner = "live"
  /\ idx = 0
  /\ closed = {}
  /\ dequeued = <<>>
  /\ logged = {}
  /\ cleared = {}
  /\ pendingAtInvalidate = {}
  /\ blockedAtInvalidate = {}
  /\ afterStop = [w \in 1..num_workers |-> 0]

Next ==
  \/ \E c \in {"returns", "throws"} : enqueue(c)
  \/ clear
  \/ call_invalidate
  \/ \E w \in 1..MaxWorkers : start(w)
  \/ \E w \in 1..MaxWorkers : spurious_wakeup(w)
  \/ dtor_begin
  \/ dtor_step

\* A queue, its workers, client threads that call enqueue, clear and
\* invalidate, and the pool's destructor.
Spec == Init /\ [][Next]_vars

\* Every thread that can run does run; the destructor, once called, runs on.
\* Spurious wakeups and client calls are never forced.
Fairness ==
  /\ \A w \in 1..MaxWorkers : WF_vars(start(w))
  /\ WF_vars(dtor_step)

\* The pool as its interface allows it to be used: submit and destruction.
NextPool ==
  \/ \E c \in {"returns", "throws"} : enqueue(c)
  \/ \E w \in 1..MaxWorkers : start(w)
  \/ \E w \in 1..MaxWorkers : spurious_wakeup(w)
  \/ dtor_begin
  \/ dtor_step

PoolSpec == Init /\ [][NextPool]_vars /\ Fairness

\* Executions in which nobody calls clear(), invalidate() or stop() and the
\* pool is not destroyed.
NextSubmit ==
  \/ \E c \in {"returns", "throws"} : enqueue(c)
  \/ \E w \in 1..MaxWorkers : start(w)
  \/ \E w \in 1..MaxWorkers : spurious_wakeup(w)

SubmitSpec ==
  Init /\ [][NextSubmit]_vars /\ \A w \in 1..MaxWorkers : WF_vars(start(w))

FairSpec == Spec /\ Fairness

\* A queue and its workers, client threads that call enqueue and invalidate,
\* and an owner that calls stop() on workers directly; no pool destructor.
NextStop ==
  \/ \E c \in {"returns", "throws"} : enqueue(c)
  \/ call_invalidate
  \/ \E w \in 1..MaxWorkers : start(w)
  \/ \E w \in 1..MaxWorkers : spurious_wakeup(w)
  \/ \E w \in 1..MaxWorkers : stop(w)
  \/ stop_join

StopSpec == Init /\ [][NextStop]_vars

\* The executions of Spec in which no wake-up is spurious: a thread leaves its
\* sleep in dequeue only through notify_one or notify_all.
NextNotified ==
  \/ \E c \in {"returns", "throws"} : enqueue(c)
  \/ clear
  \/ call_invalidate
  \/ \E w \in 1..MaxWorkers : start(w)
  \/ dtor_begin
  \/ dtor_step

NotifiedSpec == Init /\ [][NextNotified]_vars

-----------------------------------------------------------------------------
(* Properties *)

Resolved(t) == future[t][1] \in {"value", "exception"}
Increasing(s) == \A i, j \in 1..Len(s) : i < j => s[i] < s[j]
InDequeue(w) == pc[w] \in {"deq", "waiting", "woken"}

\* C1: in executions without invalidate(), clear(), stop() or destruction, on
\* a pool with at least one worker every submitted task is eventually returned
\* by a dequeue call, and no task is returned more than once.
AllDequeuedOnce ==
  /\ \A t \in 1..MaxTasks :
       (num_workers >= 1 /\ t \in Submitted) ~> (t \in Range(dequeued))
  /\ [](\A i, j \in 1..Len(dequeued) : dequeued[i] = dequeued[j] => i = j)

\* Two workers have between them taken every one of MaxTasks submissions.
AllDequeuedOnceWitness ==
  /\ num_workers = 2
  /\ Len(future) = MaxTasks
  /\ Range(dequeued) = Submitted
  /\ queue_ = <<>>

\* C2: no submission is returned by two dequeue calls; a returned submission
\* has left the queue, and no two workers hold the same submission.
NoDuplicateDelivery ==
  /\ \A i, j \in 1..Len(dequeued) : dequeued[i] = dequeued[j] => i = j
  /\ \A t \in Range(dequeued) : t \notin Range(queue_)
  /\ \A v, w \in Workers : (v # w /\ task[v] # 0) => task[v] # task[w]

\* Two workers are executing two different submissions at the same time.
NoDuplicateDeliveryWitness ==
  /\ num_workers = 2
  /\ pc[1] = "running"
  /\ pc[2] = "running"
  /\ Len(dequeued) = 2

\* C3: for any number of workers, submissions leave the queue in the order in
\* which they were enqueued.
DequeueFifo == Increasing(dequeued)

\* Two workers have taken one submission each, the first before the second,
\* and both are still executing.
DequeueFifoWitness ==
  /\ num_workers = 2
  /\ dequeued = <<1, 2>>
  /\ task[2] = 1
  /\ task[1] = 2

\* C4: with exactly one worker, submissions are executed in submission order
\* and one at a time: when a submission is taken for execution, every
\* submission taken before it has finished.
SingleWorkerOrder ==
  num_workers = 1 =>
    /\ Increasing(dequeued)
    /\ \A i \in 1..Len(dequeued) :
         \/ Resolved(dequeued[i])
         \/ i = Len(dequeued) /\ pc[1] = "running" /\ task[1] = dequeued[i]

\* The single worker is executing the second submission; the first is done.
SingleWorkerOrderWitness ==
  /\ num_workers = 1
  /\ dequeued = <<1, 2>>
  /\ pc[1] = "running"
  /\ Resolved(1)

\* C5: every worker that is asleep in dequeue when invalidate() is called
\* is woken by it, and its dequeue call eventually returns false, not a task.
InvalidateReleasesAll ==
  /\ \A w \in 1..MaxWorkers :
       (w \in blockedAtInvalidate) ~> (w \in closed)
  /\ [](\A w \in blockedAtInvalidate : w \notin closed => pc[w] = "woken")

\* Every worker of a pool of MaxWorkers was asleep in dequeue at the
\* invalidation, and each has had false returned to it.
InvalidateReleasesAllWitness ==
  /\ num_workers = MaxWorkers
  /\ blockedAtInvalidate = Workers
  /\ closed = Workers

\* C6: once ~task_pool has been called, it eventually returns, with every
\* worker thread exited and joined.
DestructorTerminates ==
  /\ (owner \in {"dtor_loop", "dtor_join"}) ~> (owner = "destroyed")
  /\ [](owner = "destroyed" =>
          \A w \in Workers : pc[w] = "exited" /\ w \in joined)

\* The destructor has returned after finding every worker asleep in dequeue
\* on an empty queue.
DestructorTerminatesWitness ==
  /\ owner = "destroyed"
  /\ num_workers = MaxWorkers
  /\ blockedAtInvalidate = Workers
  /\ pendingAtInvalidate = {}

\* C7: executing a task, throwing or not, leaves the worker in its loop; in a
\* single-worker pool a normal task submitted right after a throwing task is
\* executed and its future holds its value.
ThrowingTaskKeepsWorker ==
  /\ [][\A w \in Workers :
          pc[w] = "running" => pc'[w] \in {"running", "loop"}]_vars
  /\ [](\A w \in Workers : pc[w] # "exited")
  /\ \A t \in 2..MaxTasks :
       (/\ num_workers = 1
        /\ t \in Submitted
        /\ callable[t - 1] = "throws"
        /\ callable[t] = "returns")
       ~> (t \in Submitted /\ future[t] = <<"value", Value(t)>>)

\* The single worker has executed a throwing task and then a normal one.
ThrowingTaskKeepsWorkerWitness ==
  /\ num_workers = 1
  /\ Len(future) >= 2
  /\ callable[1] = "throws"
  /\ callable[2] = "returns"
  /\ future[1] = <<"exception", 1>>
  /\ future[2] = <<"value", Value(2)>>

\* C8: a future is set at most once; it receives a value or an exception only
\* from the worker that is executing its own task and only that task's own
\* outcome (Value(t), or the exception of t if t throws).
FutureFulfilment ==
  /\ [](\A t \in Submitted :
          /\ future[t][1] = "value" =>
               /\ callable[t] = "returns"
               /\ future[t][2] = Value(t)
               /\ t \in Range(dequeued)
          /\ future[t][1] = "exception" =>
               /\ callable[t] = "throws"
               /\ future[t][2] = t
               /\ t \in Range(dequeued))
  /\ [][\A t \in Submitted : future[t] # Pending => future'[t] = future[t]]_vars
  /\ [][\A t \in Submitted :
          (future[t] = Pending /\ future'[t][1] \in {"value", "exception"}) =>
            \E w \in Workers :
              pc[w] = "running" /\ task[w] = t /\ pc'[w] # "running"]_vars

\* Two workers; one future holds a value and another one an exception.
FutureFulfilmentWitness ==
  /\ num_workers = 2
  /\ \E t, u \in Submitted :
       /\ future[t] = <<"value", Value(t)>>
       /\ future[u] = <<"exception", u>>

Late == IF valid_ THEN {} ELSE Range(queue_) \ pendingAtInvalidate

\* C11: ~task_pool invalidates the queue before it sets any stop flag, then
\* stops and joins the workers in order, one at a time; when it returns every
\* worker thread has exited.
DtorOrder ==
  /\ \A w \in Workers :
       stop_[w] => /\ ~valid_
                   /\ owner \in {"dtor_loop", "dtor_join", "destroyed"}
                   /\ w <= idx
  /\ owner \in {"dtor_loop", "dtor_join"} =>
       \A w \in Workers : w < idx => pc[w] = "exited" /\ w \in joined
  /\ owner = "dtor_join" => stop_[idx] /\ idx \notin joined
  /\ owner = "destroyed" =>
       \A w \in Workers : stop_[w] /\ pc[w] = "exited" /\ w \in joined

\* The first worker has been joined and the second one's flag is not set yet.
DtorOrderWitness ==
  /\ num_workers = 2
  /\ owner = "dtor_loop"
  /\ idx = 2
  /\ pc[1] = "exited"
  /\ ~stop_[2]
  /\ pc[2] # "exited"

\* C12: invalidate() on an already invalidated queue changes nothing: valid_
\* stays false, the pending tasks, their futures and every thread's position
\* are as they were (no waiter is left to wake), and the call completes.
InvalidateIdempotent ==
  /\ [][(~valid_ /\ (call_invalidate \/ dtor_begin)) =>
          /\ ~valid_'
          /\ queue_' = queue_
          /\ future' = future
          /\ pc' = pc
          /\ task' = task
          /\ stop_' = stop_
          /\ closed' = closed
          /\ dequeued' = dequeued]_vars
  /\ [](~valid_ => Waiters(pc) = {})

\* With one worker, a sleeping worker implies an empty queue, so a worker
\* asleep at an invalidate() and a task pending at an invalidate() show two
\* calls, with an enqueue in between.
InvalidateIdempotentWitness ==
  /\ num_workers = 1
  /\ ~valid_
  /\ owner = "live"
  /\ blockedAtInvalidate = {1}
  /\ pendingAtInvalidate # {}

FailureLogged ==
  \A t \in Submitted : future[t][1] = "exception" => t \in logged

\* C15: a thread that clear() woke from its sleep in dequeue on a valid, empty
\* queue, no task having been enqueued, returns false from dequeue.  (With no
\* spurious wake-ups and no submission, a woken thread on a valid queue was
\* woken by clear().)
ClearReleasesWaiter ==
  [][\A w \in Workers :
       (/\ pc[w] = "woken"
        /\ valid_
        /\ future = <<>>
        /\ pc'[w] # pc[w])
       => (pc'[w] = "loop" /\ w \in closed')]_vars

\* C16: a worker to which dequeue has returned false leaves its loop: it is
\* at the loop exit or has exited, and never calls dequeue again.
ClosedExitsLoop ==
  \A w \in closed : pc[w] \in {"loop", "exited"}

\* C17: while stop() is joining a worker that is inside dequeue on a valid,
\* empty queue, and as long as the queue stays valid and empty (no enqueue,
\* no invalidate), the worker stays inside dequeue and stop() does not return.
StopBlocksWithoutInvalidate ==
  [][(/\ owner = "join"
      /\ pc[idx] \in {"waiting", "woken"}
      /\ valid_ /\ queue_ = <<>>
      /\ valid_' /\ queue_' = <<>>)
     => (/\ owner' = "join"
         /\ idx' = idx
         /\ pc'[idx] \in {"waiting", "woken"}
         /\ ~ENABLED stop_join)]_vars

\* stop() is blocked in join on the only worker, which sleeps in dequeue on a
\* valid, empty queue.
StopBlocksWithoutInvalidateWitness ==
  /\ num_workers = 1
  /\ owner = "join"
  /\ stop_[1]
  /\ pc[1] = "waiting"
  /\ valid_
  /\ queue_ = <<>>

\* C18: in a pool with at least one worker it is never the case that the
\* queue is valid and non-empty while every worker sleeps in dequeue's wait.
NoLostWakeup ==
  (num_workers >= 1 /\ valid_ /\ queue_ # <<>>) =>
    \E w \in Workers : pc[w] # "waiting"

\* A task is pending; one worker has been notified and the other still sleeps.
NoLostWakeupWitness ==
  /\ num_workers = 2
  /\ valid_
  /\ queue_ # <<>>
  /\ pc[1] = "woken"
  /\ pc[2] = "waiting"

\* C19: a thread woken in dequeue while the queue is empty and valid goes back
\* to sleep without returning; dequeue hands out a task only by removing the
\* head of a non-empty queue.
SpuriousWakeupImmune ==
  [][\A w \in Workers :
       /\ (pc[w] = "woken" /\ queue_ = <<>> /\ valid_ /\ pc'[w] # pc[w]) =>
            /\ pc'[w] = "waiting"
            /\ closed' = closed
            /\ dequeued' = dequeued
            /\ queue_' = queue_
       /\ (InDequeue(w) /\ pc'[w] = "running") =>
            /\ queue_ # <<>>
            /\ task'[w] = Head(queue_)
            /\ queue_' = Tail(queue_)]_vars

\* No task was ever submitted and nothing was invalidated, yet a worker is
\* awake inside dequeue (woken spuriously or by a clear()).
SpuriousWakeupImmuneWitness ==
  /\ num_workers >= 1
  /\ future = <<>>
  /\ valid_
  /\ cleared = {}
  /\ pc[1] = "woken"

\* C20: a worker whose stop flag is set receives at most one further task from
\* dequeue, and at its next loop test it exits, whatever the queue holds; the
\* flag is never reset, and a worker exits only with its flag set.
StopBetweenTasks ==
  /\ [](\A w \in Workers : afterStop[w] <= 1)
  /\ [](\A w \in Workers : pc[w] = "exited" => stop_[w])
  /\ [][\A w \in Workers :
          /\ stop_[w] => stop_'[w]
          /\ (stop_[w] /\ pc[w] = "loop" /\ pc'[w] # pc[w]) =>
               pc'[w] = "exited"]_vars

\* A stopped worker has taken one task after its flag was set and has exited
\* while the valid queue still holds a task.
StopBetweenTasksWitness ==
  \E w \in Workers :
    /\ stop_[w]
    /\ pc[w] = "exited"
    /\ afterStop[w] = 1
    /\ valid_
    /\ queue_ # <<>>

====
